---- MODULE Spec2Model ----
(***************************************************************************)
(* Merkle patricia trie over a content-addressed blob store                *)
(* (db/trusted/src/patricia_trie/trie.rs).                                 *)
(*                                                                         *)
(* A blob is the serialization of one node; its H256 is modelled as a      *)
(* collision-free function of the blob, so a hash is a wrapper around the  *)
(* bytes it addresses and the store is the set of blobs written so far.    *)
(***************************************************************************)
EXTENDS Integers, Sequences, FiniteSets, TLC

VARIABLES
    storage,    \* blob store: the set of blobs inserted so far
    cur,        \* the root the caller holds (Option<H256>)
    returned,   \* every <<root, mapping>> an operation has returned so far
    prev,       \* the call before the last one
    last,       \* the last call: operation, inputs and what it returned
    nops,       \* number of calls made
    pending,    \* stepwise writer: blobs the operation in progress still has to write
    wres,       \* stepwise writer: the call in progress
    rd          \* stepwise reader: the lookup in progress

vars == <<storage, cur, returned, prev, last, nops, pending, wres, rd>>

----------------------------------------------------------------------------
(* Bounds and input sets *)

MaxOps == 4
MaxSteps == 3
MaxCalls == 3

\* bytes 0x11, 0x12, 0x21
Keys == { <<>>, <<17>>, <<18>>, <<33>>, <<17, 17>> }

ShortValue == <<1>>
LongValue == [i \in 1..32 |-> 2]
Values == { ShortValue, LongValue }

\* keys and values of the calls that are followed write by write
StepKeys == { <<17>>, <<33>>, <<17, 17>> }
StepValues == { ShortValue, LongValue }

\* keys and values of the calls made on a blob store that may fail, and the
\* number of blob-store calls that succeed before the failure (Never: all do)
Never == -1
FailKeys == { <<17>>, <<33>>, <<17, 17>> }
FailValues == { ShortValue, LongValue }
FailPoints == { Never, 0, 1, 2, 3, 4 }

----------------------------------------------------------------------------
(* Option, node and node pointer *)

None == <<>>
Some(v) == <<v>>

Null == [kind |-> "Null"]
Pointer(h) == [kind |-> "Pointer", hash |-> h]
Embedded(n) == [kind |-> "Embedded", node |-> n]

Leaf(p, v) == [type |-> "Leaf", path |-> p, value |-> v]
Extension(p, q) == [type |-> "Extension", path |-> p, pointer |-> q]
\* (the value of a branch is an Option, the value of a leaf is not)
Branch(c, v) == [type |-> "Branch", children |-> c, branch_value |-> v]

null_children == [i \in 1..16 |-> Null]

\* children.is_empty()
children_is_empty(children) == Len(children) = 0

\* number of children that are not Null
used_slots(children) == Cardinality({i \in 1..Len(children) : children[i] # Null})

----------------------------------------------------------------------------
(* Nibble paths *)

RECURSIVE from_key(_)
from_key(key) ==
    IF key = <<>> THEN <<>>
    ELSE <<Head(key) \div 16, Head(key) % 16>> \o from_key(Tail(key))

starts_with(path, prefix) ==
    /\ Len(prefix) <= Len(path)
    /\ SubSeq(path, 1, Len(prefix)) = prefix

RECURSIVE common_prefix(_, _)
common_prefix(a, b) ==
    IF a = <<>> \/ b = <<>> \/ Head(a) # Head(b) THEN <<>>
    ELSE <<Head(a)>> \o common_prefix(Tail(a), Tail(b))

\* path[n..]
slice_from(path, n) == SubSeq(path, n + 1, Len(path))

----------------------------------------------------------------------------
(* Serialization, hashing and the embedding rule *)

to_vec(node) == [cbor |-> node]
from_slice(bytes) == bytes.cbor
Hash(bytes) == [h256 |-> bytes]

H256Len == 32

RECURSIVE EncodedLen(_)
RECURSIVE SumLen(_, _)
PointerLen(pointer) ==
    CASE pointer.kind = "Null" -> 1
      [] pointer.kind = "Pointer" -> 2 + H256Len
      [] pointer.kind = "Embedded" -> 1 + EncodedLen(pointer.node)
SumLen(children, n) ==
    IF n = 0 THEN 0 ELSE PointerLen(children[n]) + SumLen(children, n - 1)
EncodedLen(node) ==
    CASE node.type = "Leaf" -> 3 + Len(node.path) + Len(node.value)
      [] node.type = "Extension" -> 3 + Len(node.path) + PointerLen(node.pointer)
      [] node.type = "Branch" ->
            3 + SumLen(node.children, Len(node.children))
              + (IF node.branch_value = None THEN 1 ELSE 1 + Len(node.branch_value[1]))

is_embeddable(node) == EncodedLen(node) < H256Len

----------------------------------------------------------------------------
(* Blob store, as seen by one call.  A context s carries the store, the    *)
(* blobs the call has written and the hashes it has read, in order, the    *)
(* panic that ended the call ("none" while it runs) and the number of      *)
(* blob-store calls that succeed before one returns an error (Never: the   *)
(* store does not fail).  A call that has panicked does nothing more.      *)

NoPanic == "none"

NewContext(store) ==
    [store |-> store, writes |-> <<>>, reads |-> <<>>, panic |-> NoPanic, left |-> Never]

\* the store failing at its call number left + 1
FailingContext(store, left) == [NewContext(store) EXCEPT !.left = left]

Panic(s, what) == [s EXCEPT !.panic = what]

\* one more blob-store call has succeeded
Served(s) == [s EXCEPT !.left = IF @ = Never THEN Never ELSE @ - 1]

\* storage_insert with a store that keeps only the blob written last
storage_insert_overwrite(s, bytes) ==
    IF s.panic # NoPanic THEN [s |-> s, hash |-> Hash(bytes)]
    ELSE IF s.left = 0
    THEN [s |-> Panic(s, "failed to insert to storage"), hash |-> Hash(bytes)]
    ELSE [s |-> [Served(s) EXCEPT !.store = {bytes}, !.writes = Append(@, bytes)],
          hash |-> Hash(bytes)]

\* self.storage.insert(bytes, expiry).wait().expect(..)
storage_insert(s, bytes) ==
    IF s.panic # NoPanic THEN [s |-> s, hash |-> Hash(bytes)]
    ELSE IF s.left = 0
    THEN [s |-> Panic(s, "failed to insert to storage"), hash |-> Hash(bytes)]
    ELSE [s |-> [Served(s) EXCEPT !.store = @ \cup {bytes}, !.writes = Append(@, bytes)],
          hash |-> Hash(bytes)]

\* self.storage.get(hash).wait().expect(..)
storage_get(s, hash) ==
    IF s.panic # NoPanic THEN [s |-> s, bytes |-> hash.h256]
    ELSE IF s.left # 0 /\ hash.h256 \in s.store
    THEN [s |-> [Served(s) EXCEPT !.reads = Append(@, hash)], bytes |-> hash.h256]
    ELSE [s |-> Panic(s, "failed to fetch from storage"), bytes |-> hash.h256]

get_root_pointer(root) ==
    IF root = None THEN Null ELSE Pointer(root[1])

----------------------------------------------------------------------------
(* Lookup *)

\* One step of a lookup either ends it with a value (or a panic) or goes
\* on with the rest of the path at a child pointer.
Ended(panic, value) ==
    [done |-> TRUE, panic |-> panic, value |-> value, path |-> <<>>, pointer |-> Null]
GoOn(path, pointer) ==
    [done |-> FALSE, panic |-> NoPanic, value |-> None, path |-> path, pointer |-> pointer]

get_path_by_node(path, node) ==
    CASE node.type = "Branch" ->
            IF path = <<>> THEN Ended(NoPanic, node.branch_value)
            ELSE GoOn(slice_from(path, 1), node.children[path[1] + 1])
      [] node.type = "Leaf" ->
            IF node.path = path THEN Ended(NoPanic, Some(node.value))
            ELSE Ended(NoPanic, None)
      [] node.type = "Extension" ->
            IF starts_with(path, node.path)
            THEN GoOn(slice_from(path, Len(node.path)), node.pointer)
            ELSE Ended(NoPanic, None)

\* get_path_by_pointer up to its recursive call
lookup_step(store, path, pointer) ==
    CASE pointer.kind = "Null" -> Ended(NoPanic, None)
      [] pointer.kind = "Pointer" ->
            IF pointer.hash.h256 \in store
            THEN get_path_by_node(path, from_slice(pointer.hash.h256))
            ELSE Ended("failed to fetch from storage", None)
      [] pointer.kind = "Embedded" -> get_path_by_node(path, pointer.node)

RECURSIVE get_path_by_pointer(_, _, _)
get_path_by_pointer(store, path, pointer) ==
    LET r == lookup_step(store, path, pointer)
    IN  IF r.done THEN [panic |-> r.panic, value |-> r.value]
        ELSE get_path_by_pointer(store, r.path, r.pointer)

get(store, root, key) ==
    get_path_by_pointer(store, from_key(key), get_root_pointer(root))

----------------------------------------------------------------------------
(* Insert *)

\* the pointer to a blob the store has taken
stored(r) == [s |-> r.s, pointer |-> Pointer(r.hash)]

\* insert_node that hands out the Null pointer
insert_node_null(s, node) == [s |-> s, pointer |-> Null]

insert_node(s, node) ==
    IF is_embeddable(node)
    THEN [s |-> s, pointer |-> Embedded(node)]
    ELSE stored(storage_insert(s, to_vec(node)))

DummyNode == Leaf(<<>>, <<>>)

\* the node in a blob the store has handed out
fetched(r) == [s |-> r.s, node |-> from_slice(r.bytes)]

deref_node_pointer(s, pointer) ==
    CASE pointer.kind = "Null" ->
            [s |-> Panic(s, "null node pointer dereference"), node |-> DummyNode]
      [] pointer.kind = "Pointer" -> fetched(storage_get(s, pointer.hash))
      [] pointer.kind = "Embedded" -> [s |-> s, node |-> pointer.node]

\* target_children[nibble] = r, where r is what insert_node returned
put_child(acc, nibble, r) ==
    [acc EXCEPT !.s = r.s, !.children[nibble + 1] = r.pointer]

\* The closure add_leaf of the leaf split; acc holds the context, target_children
\* and target_value.  A panic of the first call leaves nothing for the second to do.
add_leaf(acc, common, path, value) ==
    IF acc.s.panic # NoPanic THEN acc
    ELSE IF Len(common) = Len(path)
    THEN IF acc.value # None
         THEN [acc EXCEPT !.s = Panic(@, "assertion failed: target_value.is_none()")]
         ELSE [acc EXCEPT !.value = Some(value)]
    ELSE put_child(acc, path[Len(common) + 1],
                   insert_node(acc.s, Leaf(slice_from(path, Len(common) + 1), value)))

\* Extension { path: common_prefix, pointer: r }
extension_over(common, r) == [s |-> r.s, node |-> Extension(common, r.pointer)]

\* wrap_branch that puts an extension above the branch whatever the common prefix
wrap_branch_always(s, common, branch) ==
    extension_over(common, insert_node(s, branch))

\* Wrap the branch of a split in an extension for the common prefix, if any.
wrap_branch(s, common, branch) ==
    IF Len(common) > 0
    THEN extension_over(common, insert_node(s, branch))
    ELSE [s |-> s, node |-> branch]

\* the branch of a split, from the children and value collected in acc
branch_of(acc, common) ==
    IF acc.s.panic # NoPanic THEN [s |-> acc.s, node |-> DummyNode]
    ELSE wrap_branch(acc.s, common, Branch(acc.children, acc.value))

\* Leaf whose path differs from the inserted path, split after the common prefix.
split_leaf_at(s, path, value, node, common) ==
    branch_of(add_leaf(add_leaf([s |-> s, children |-> null_children, value |-> None],
                                common, node.path, node.value),
                       common, path, value),
              common)

split_leaf(s, path, value, node) ==
    split_leaf_at(s, path, value, node, common_prefix(node.path, path))

\* the side of the old extension: its pointer, or an extension for the rest of its path
old_side(s, node, common) ==
    IF slice_from(node.path, Len(common) + 1) = <<>>
    THEN put_child([s |-> s, children |-> null_children, value |-> None],
                   node.path[Len(common) + 1],
                   [s |-> s, pointer |-> node.pointer])
    ELSE put_child([s |-> s, children |-> null_children, value |-> None],
                   node.path[Len(common) + 1],
                   insert_node(s, Extension(slice_from(node.path, Len(common) + 1),
                                            node.pointer)))

\* the side of the inserted key: the branch value, or a new leaf
new_side(acc, path, value, common) ==
    IF Len(common) = Len(path)
    THEN [acc EXCEPT !.value = Some(value)]
    ELSE put_child(acc, path[Len(common) + 1],
                   insert_node(acc.s, Leaf(slice_from(path, Len(common) + 1), value)))

\* Extension whose path is not a prefix of the inserted path.
split_extension_at(s, path, value, node, common) ==
    IF ~(Len(common) < Len(node.path))
    THEN [s |-> Panic(s, "assertion failed: common_prefix.len() < node_path.len()"),
          node |-> DummyNode]
    ELSE branch_of(new_side(old_side(s, node, common), path, value, common), common)

split_extension(s, path, value, node) ==
    split_extension_at(s, path, value, node, common_prefix(node.path, path))

\* children[child_index] = r, where r is what the step below returned
branch_with(node, nibble, r) ==
    [s |-> r.s,
     node |-> Branch([node.children EXCEPT ![nibble + 1] = r.pointer], node.branch_value)]

RECURSIVE insert_path_by_pointer(_, _, _, _)
RECURSIVE insert_path_by_node(_, _, _, _)
insert_path_by_node(s, path, value, node) ==
    CASE node.type = "Branch" ->
            IF children_is_empty(node.children)
            THEN [s |-> s, node |-> Branch(node.children, Some(value))]
            ELSE IF path = <<>>
            THEN [s |-> Panic(s, "index out of bounds"), node |-> DummyNode]
            ELSE branch_with(node, path[1],
                             insert_path_by_pointer(s, slice_from(path, 1), value,
                                                    node.children[path[1] + 1]))
      [] node.type = "Leaf" ->
            IF path = node.path
            THEN [s |-> s, node |-> Leaf(path, value)]
            ELSE split_leaf(s, path, value, node)
      [] node.type = "Extension" ->
            IF starts_with(path, node.path)
            THEN extension_over(node.path,
                                insert_path_by_pointer(s, slice_from(path, Len(node.path)),
                                                       value, node.pointer))
            ELSE split_extension(s, path, value, node)

\* insert_path_by_node on a node that deref_node_pointer returned
insert_path_by_deref(d, path, value) ==
    IF d.s.panic # NoPanic THEN d
    ELSE insert_path_by_node(d.s, path, value, d.node)

\* self.insert_node(new_node)
insert_new_node(r) ==
    IF r.s.panic # NoPanic THEN [s |-> r.s, pointer |-> Null]
    ELSE insert_node(r.s, r.node)

insert_path_by_pointer(s, path, value, pointer) ==
    CASE pointer.kind = "Null" -> insert_new_node([s |-> s, node |-> Leaf(path, value)])
      [] pointer.kind = "Pointer" ->
            insert_new_node(insert_path_by_deref(deref_node_pointer(s, pointer),
                                                 path, value))
      [] pointer.kind = "Embedded" ->
            insert_new_node(insert_path_by_node(s, path, value, pointer.node))

\* What a call hands back: the store it leaves, its reads and writes, the
\* panic that ended it, if any, and the root it returned.
Outcome(s, root) ==
    [store |-> s.store, writes |-> s.writes, reads |-> s.reads, panic |-> s.panic,
     root |-> root]

\* stored_root of a call that wrote its root node before every other node
stored_root_first(r) ==
    IF r.s.panic # NoPanic THEN Outcome(r.s, None)
    ELSE Outcome([r.s EXCEPT !.writes = <<@[Len(@)]>> \o SubSeq(@, 1, Len(@) - 1)],
                 Some(r.hash))

\* the root hash of a blob the store has taken
stored_root(r) ==
    IF r.s.panic # NoPanic THEN Outcome(r.s, None) ELSE Outcome(r.s, Some(r.hash))

\* store_root that hashes the root node without writing it
store_root_unstored(s, node) ==
    Outcome(s, Some(Hash(to_vec(node))))

\* Store the root node of a finished operation and return its hash.
store_root(s, node) == stored_root(storage_insert(s, to_vec(node)))

\* insert_root that hands out the pointer it got from a call that panicked
insert_root_despite(new_root) ==
    CASE new_root.pointer.kind = "Null" ->
            Outcome(Panic(new_root.s, "insert operation cannot remove root"), None)
      [] new_root.pointer.kind = "Pointer" ->
            Outcome(new_root.s, Some(new_root.pointer.hash))
      [] new_root.pointer.kind = "Embedded" ->
            store_root(new_root.s, new_root.pointer.node)

\* match new_root { .. } of insert
insert_root(new_root) ==
    IF new_root.s.panic # NoPanic THEN Outcome(new_root.s, None)
    ELSE CASE new_root.pointer.kind = "Null" ->
                Outcome(Panic(new_root.s, "insert operation cannot remove root"), None)
           [] new_root.pointer.kind = "Pointer" ->
                Outcome(new_root.s, Some(new_root.pointer.hash))
           [] new_root.pointer.kind = "Embedded" ->
                store_root(new_root.s, new_root.pointer.node)

\* insert against the blob store of context s
insert_with(s, root, key, value) ==
    insert_root(insert_path_by_pointer(s, from_key(key), value, get_root_pointer(root)))

insert(store, root, key, value) == insert_with(NewContext(store), root, key, value)

----------------------------------------------------------------------------
(* Remove.  A removal step returns Option<Node>: opt is None or Some(node). *)

\* first_child with the index counted from 1
first_child_from_one(children) ==
    LET i == CHOOSE i \in 1..Len(children) :
                /\ children[i] # Null
                /\ \A j \in 1..(i - 1) : children[j] = Null
    IN  <<i, children[i]>>

\* The first child that is not Null, as <<index, pointer>> (index from 0).
first_child(children) ==
    LET i == CHOOSE i \in 1..Len(children) :
                /\ children[i] # Null
                /\ \A j \in 1..(i - 1) : children[j] = Null
    IN  <<i - 1, children[i]>>

\* collapse_branch that drops an empty branch but never collapses
collapse_branch_keep(s, children, node_value) ==
    IF used_slots(children) + Len(node_value) = 0
    THEN [s |-> s, opt |-> None]
    ELSE [s |-> s, opt |-> Some(Branch(children, node_value))]

\* A branch that lost its value or a child: collapse it if one entry is left.
collapse_branch(s, children, node_value) ==
    LET child_count == used_slots(children) + Len(node_value)
    IN  CASE child_count = 0 -> [s |-> s, opt |-> None]
          [] child_count = 1 /\ node_value # None ->
                [s |-> s, opt |-> Some(Leaf(<<>>, node_value[1]))]
          [] child_count = 1 /\ node_value = None ->
                LET c == first_child(children)
                    d == deref_node_pointer(s, c[2])
                IN  IF d.s.panic # NoPanic THEN [s |-> d.s, opt |-> None]
                    ELSE (CASE d.node.type = "Branch" ->
                                LET r == insert_node(d.s, d.node)
                                IN  [s |-> r.s, opt |-> Some(Extension(<<c[1]>>, r.pointer))]
                            [] d.node.type = "Leaf" ->
                                [s |-> d.s,
                                 opt |-> Some(Leaf(<<c[1]>> \o d.node.path, d.node.value))]
                            [] d.node.type = "Extension" ->
                                IF d.node.pointer = Null
                                THEN [s |-> Panic(d.s, "assertion failed: pointer != NodePointer::Null"),
                                      opt |-> None]
                                ELSE [s |-> d.s,
                                      opt |-> Some(Extension(<<c[1]>> \o d.node.path,
                                                             d.node.pointer))])
          [] OTHER -> [s |-> s, opt |-> Some(Branch(children, node_value))]

\* merge_extension that keeps the extension above a leaf
merge_extension_unmerged(node_path, r) ==
    IF r.opt = None THEN [s |-> r.s, opt |-> None]
    ELSE IF r.opt[1].type = "Extension"
    THEN [s |-> r.s,
          opt |-> Some(Extension(node_path \o r.opt[1].path, r.opt[1].pointer))]
    ELSE LET p == insert_node(r.s, r.opt[1])
         IN  [s |-> p.s, opt |-> Some(Extension(node_path, p.pointer))]

\* An extension whose subtree came back from the removal as r.opt.
merge_extension(node_path, r) ==
    IF r.opt = None THEN [s |-> r.s, opt |-> None]
    ELSE LET child == r.opt[1]
         IN  CASE child.type = "Branch" ->
                    LET p == insert_node(r.s, child)
                    IN  [s |-> p.s, opt |-> Some(Extension(node_path, p.pointer))]
               [] child.type = "Leaf" ->
                    [s |-> r.s, opt |-> Some(Leaf(node_path \o child.path, child.value))]
               [] child.type = "Extension" ->
                    [s |-> r.s,
                     opt |-> Some(Extension(node_path \o child.path, child.pointer))]

\* remove_leaf that removes whatever leaf it meets
remove_leaf_any(s, path, node) == [s |-> s, opt |-> None]

\* remove_leaf that never removes
remove_leaf_keep(s, path, node) == [s |-> s, opt |-> Some(Leaf(node.path, node.value))]

\* A leaf met by the removal.
remove_leaf(s, path, node) ==
    IF path = node.path THEN [s |-> s, opt |-> None]
    ELSE [s |-> s, opt |-> Some(Leaf(node.path, node.value))]

RECURSIVE remove_path_by_pointer(_, _, _)
remove_path_by_node(s, path, node) ==
    CASE node.type = "Branch" ->
            IF path = <<>>
            THEN collapse_branch(s, node.children, None)
            ELSE LET r == remove_path_by_pointer(s, slice_from(path, 1),
                                                 node.children[path[1] + 1])
                 IN  IF r.s.panic # NoPanic THEN r
                     ELSE IF r.opt # None
                     THEN LET p == insert_node(r.s, r.opt[1])
                          IN  [s |-> p.s,
                               opt |-> Some(Branch([node.children EXCEPT
                                                       ![path[1] + 1] = p.pointer],
                                                   node.branch_value))]
                     ELSE collapse_branch(r.s,
                                          [node.children EXCEPT ![path[1] + 1] = Null],
                                          node.branch_value)
      [] node.type = "Leaf" -> remove_leaf(s, path, node)
      [] node.type = "Extension" ->
            IF starts_with(path, node.path)
            THEN LET r == remove_path_by_pointer(s, slice_from(path, Len(node.path)),
                                                 node.pointer)
                 IN  IF r.s.panic # NoPanic THEN r
                     ELSE merge_extension(node.path, r)
            ELSE [s |-> s, opt |-> Some(Extension(node.path, node.pointer))]

remove_path_by_pointer(s, path, pointer) ==
    CASE pointer.kind = "Null" -> [s |-> s, opt |-> None]
      [] pointer.kind = "Pointer" ->
            LET d == deref_node_pointer(s, pointer)
            IN  IF d.s.panic # NoPanic THEN [s |-> d.s, opt |-> None]
                ELSE remove_path_by_node(d.s, path, d.node)
      [] pointer.kind = "Embedded" -> remove_path_by_node(s, path, pointer.node)

\* remove against the blob store of context s
remove_with(s, root, key) ==
    IF root = None THEN Outcome(s, None)
    ELSE LET new_root == remove_path_by_pointer(s, from_key(key), get_root_pointer(root))
         IN  IF new_root.s.panic # NoPanic \/ new_root.opt = None
             THEN Outcome(new_root.s, None)
             ELSE store_root(new_root.s, new_root.opt[1])

remove(store, root, key) == remove_with(NewContext(store), root, key)

----------------------------------------------------------------------------
(* The caller: a sequence of calls, each made on the root the caller holds *)
(* (None at first); the caller keeps the root it gets back.  Beside a root *)
(* the model keeps the mapping it stands for and how it was produced, both *)
(* computed from the calls alone:                                          *)
(*   "distinct"  by inserting pairwise distinct keys into the empty root,  *)
(*   "inserts"   by inserts only,                                          *)
(*   "mixed"     by inserts and removes.                                   *)

EmptyMap == [k \in Keys |-> None]

EmptyRoot == [root |-> None, map |-> EmptyMap, hist |-> "distinct"]

NoCall ==
    [op |-> "none", root |-> None, map |-> EmptyMap, hist |-> "distinct",
     key |-> <<>>, value |-> <<>>,
     panic |-> NoPanic, result |-> None, newmap |-> EmptyMap,
     reads |-> <<>>, writes |-> <<>>, fresh |-> {}]

NoRead ==
    [active |-> FALSE, done |-> FALSE, root |-> None, key |-> <<>>, expect |-> None,
     path |-> <<>>, pointer |-> Null, panic |-> NoPanic, value |-> None,
     steps |-> 0, raced |-> FALSE]

Call(op, from, key, value, out, newmap) ==
    [op |-> op, root |-> from.root, map |-> from.map, hist |-> from.hist,
     key |-> key, value |-> value,
     panic |-> out.panic, result |-> out.root, newmap |-> newmap,
     reads |-> out.reads, writes |-> out.writes, fresh |-> out.store \ storage]

HistAfter(op, from, key) ==
    IF op = "remove" \/ from.hist = "mixed" THEN "mixed"
    ELSE IF from.hist = "distinct" /\ from.map[key] = None THEN "distinct"
    ELSE "inserts"

MapAfter(op, from, key, value) ==
    IF op = "insert" THEN [from.map EXCEPT ![key] = Some(value)]
    ELSE [from.map EXCEPT ![key] = None]

\* The caller's state after call c came back; a call that panicked returns nothing.
Returns(c) ==
    /\ prev' = last
    /\ last' = c
    /\ nops' = nops + 1
    /\ IF c.panic = NoPanic
       THEN LET e == [root |-> c.result, map |-> c.newmap,
                      hist |-> HistAfter(c.op, c, c.key)]
            IN  /\ cur' = e
                /\ returned' = returned \cup {e}
       ELSE UNCHANGED <<cur, returned>>

Init ==
    /\ storage = {}
    /\ cur = EmptyRoot
    /\ returned = {}
    /\ prev = NoCall
    /\ last = NoCall
    /\ nops = 0
    /\ pending = <<>>
    /\ wres = NoCall
    /\ rd = NoRead

Insert(from, key, value) ==
    /\ nops < MaxOps
    /\ LET out == insert(storage, from.root, key, value)
       IN  /\ storage' = out.store
           /\ Returns(Call("insert", from, key, value, out,
                           MapAfter("insert", from, key, value)))
    /\ UNCHANGED <<pending, wres, rd>>

Remove(from, key) ==
    /\ nops < MaxOps
    /\ LET out == remove(storage, from.root, key)
       IN  /\ storage' = out.store
           /\ Returns(Call("remove", from, key, <<>>, out,
                           MapAfter("remove", from, key, <<>>)))
    /\ UNCHANGED <<pending, wres, rd>>

Next ==
    \/ \E key \in Keys, value \in Values : Insert(cur, key, value)
    \/ \E key \in Keys : Remove(cur, key)

Spec == Init /\ [][Next]_vars

----------------------------------------------------------------------------
(* The same caller seen at the blob store: a call writes its blobs one at  *)
(* a time, in the order of its writes, and returns after the last one,     *)
(* while a reader looks one key up under a root returned earlier, one      *)
(* lookup step at a time.  The call in progress is the only writer, so it  *)
(* reads what it would read alone.                                         *)

BeginInsert(key, value) ==
    /\ nops < MaxSteps
    /\ wres.op = "none"
    /\ LET out == insert(storage, cur.root, key, value)
       IN  /\ wres' = Call("insert", cur, key, value, out,
                           MapAfter("insert", cur, key, value))
           /\ pending' = out.writes
    /\ UNCHANGED <<storage, cur, returned, prev, last, nops, rd>>

BeginRemove(key) ==
    /\ nops < MaxSteps
    /\ wres.op = "none"
    /\ LET out == remove(storage, cur.root, key)
       IN  /\ wres' = Call("remove", cur, key, <<>>, out,
                           MapAfter("remove", cur, key, <<>>))
           /\ pending' = out.writes
    /\ UNCHANGED <<storage, cur, returned, prev, last, nops, rd>>

WriteBlob ==
    /\ pending # <<>>
    /\ storage' = storage_insert(NewContext(storage), Head(pending)).s.store
    /\ pending' = Tail(pending)
    /\ rd' = IF rd.active /\ ~rd.done THEN [rd EXCEPT !.raced = TRUE] ELSE rd
    /\ UNCHANGED <<cur, returned, prev, last, nops, wres>>

Finish ==
    /\ wres.op # "none"
    /\ pending = <<>>
    /\ Returns(wres)
    /\ wres' = NoCall
    /\ UNCHANGED <<storage, pending, rd>>

GetStart(e, key) ==
    /\ ~rd.active
    /\ rd' = [NoRead EXCEPT !.active = TRUE, !.root = e.root, !.key = key,
                            !.expect = e.map[key], !.path = from_key(key),
                            !.pointer = get_root_pointer(e.root)]
    /\ UNCHANGED <<storage, cur, returned, prev, last, nops, pending, wres>>

GetStep ==
    /\ rd.active /\ ~rd.done
    /\ LET r == lookup_step(storage, rd.path, rd.pointer)
       IN  rd' = [rd EXCEPT !.done = r.done, !.panic = r.panic, !.value = r.value,
                            !.path = r.path, !.pointer = r.pointer, !.steps = @ + 1]
    /\ UNCHANGED <<storage, cur, returned, prev, last, nops, pending, wres>>

NextSteps ==
    \/ \E key \in StepKeys, value \in StepValues : BeginInsert(key, value)
    \/ \E key \in StepKeys : BeginRemove(key)
    \/ WriteBlob
    \/ Finish
    \/ \E e \in returned, key \in StepKeys : GetStart(e, key)
    \/ GetStep

SpecSteps == Init /\ [][NextSteps]_vars

----------------------------------------------------------------------------
(* The same caller on a blob store that may fail: the store serves the     *)
(* first left calls of an operation and returns an error to the next one.  *)

InsertMayFail(key, value, left) ==
    /\ nops < MaxCalls
    /\ LET out == insert_with(FailingContext(storage, left), cur.root, key, value)
       IN  /\ storage' = out.store
           /\ Returns(Call("insert", cur, key, value, out,
                           MapAfter("insert", cur, key, value)))
    /\ UNCHANGED <<pending, wres, rd>>

RemoveMayFail(key, left) ==
    /\ nops < MaxCalls
    /\ LET out == remove_with(FailingContext(storage, left), cur.root, key)
       IN  /\ storage' = out.store
           /\ Returns(Call("remove", cur, key, <<>>, out,
                           MapAfter("remove", cur, key, <<>>)))
    /\ UNCHANGED <<pending, wres, rd>>

NextFail ==
    \/ \E key \in FailKeys, value \in FailValues, left \in FailPoints :
            InsertMayFail(key, value, left)
    \/ \E key \in FailKeys, left \in FailPoints : RemoveMayFail(key, left)

SpecFail == Init /\ [][NextFail]_vars

----------------------------------------------------------------------------
(* Properties *)

Found(v) == [panic |-> NoPanic, value |-> v]

\* get on the root answers exactly as the mapping m
Denotes(store, root, m) == \A k \in Keys : get(store, root, k) = Found(m[k])

\* C1 Round-trip: every insert of a sequence of inserts made from the empty
\* root completes, and get on the final root returns the last value written
\* under every key.
C1_RoundTrip ==
    (last.op = "insert" /\ last.hist # "mixed") =>
        /\ last.panic = NoPanic
        /\ last.result # None
        /\ Denotes(storage, last.result, last.newmap)

\* The keys in one fixed order, a key before the keys it is a prefix of.
KeyOrder == << <<>>, <<17>>, <<17, 17>>, <<18>>, <<33>> >>

\* The pairs of mapping m inserted into the empty root in the order of
\* KeyOrder, starting at position i, on top of outcome acc.
RECURSIVE InsertInOrder(_, _, _)
InsertInOrder(m, i, acc) ==
    IF i > Len(KeyOrder) \/ acc.panic # NoPanic THEN acc
    ELSE IF m[KeyOrder[i]] = None THEN InsertInOrder(m, i + 1, acc)
    ELSE InsertInOrder(m, i + 1, insert(acc.store, acc.root, KeyOrder[i], m[KeyOrder[i]][1]))

Build(m) == InsertInOrder(m, 1, Outcome(NewContext({}), None))

\* C2 Order independence: inserting pairs with pairwise distinct keys into
\* the empty root completes in whatever order they come, and the root is
\* the one the same pairs give in the fixed order KeyOrder.
C2_OrderIndependence ==
    (last.op = "insert" /\ last.hist = "distinct" /\ last.map[last.key] = None) =>
        /\ last.panic = NoPanic
        /\ last.result = Build(last.newmap).root

\* C3 Canonicity after churn: two roots returned in the course of one
\* sequence of calls that stand for the same mapping are the same root, and
\* the root of the empty mapping is None.
C3_Canonicity ==
    \A e1, e2 \in returned \cup {EmptyRoot} : e1.map = e2.map => e1.root = e2.root

\* removing a key from a tree of three keys gave back the root that two
\* inserts into the empty root had returned
C3_Witness ==
    /\ last.op = "remove" /\ last.panic = NoPanic /\ last.map[last.key] # None
    /\ Cardinality({k \in Keys : last.newmap[k] # None}) = 2
    /\ \E e \in returned : e.map = last.newmap /\ e.hist # "mixed" /\ e.root = last.result

InsertThenRemove ==
    /\ prev.op = "insert" /\ prev.panic = NoPanic
    /\ last.op = "remove" /\ last.root = prev.result /\ last.key = prev.key

\* C4 as stated: removing k from insert(r, k, v) gives r, for every key k.
C4_Original ==
    InsertThenRemove => (last.panic = NoPanic /\ last.result = prev.root)

\* C4 Deletion undoes insertion of a single key: for a key k that root r
\* does not hold, removing k from insert(r, k, v) gives r (None for None).
C4_DeletionUndoesInsertion ==
    (InsertThenRemove /\ get(storage, prev.root, prev.key) = Found(None)) =>
        (last.panic = NoPanic /\ last.result = prev.root)

\* a new key was inserted into a tree of two keys and removed again
C4_Witness ==
    /\ InsertThenRemove /\ prev.map[prev.key] = None
    /\ Cardinality({k \in Keys : prev.map[k] # None}) >= 2
    /\ last.result = prev.root

\* C5 Idempotent insert: inserting the same pair a second time completes
\* and returns the root of the first insert.
C5_IdempotentInsert ==
    (/\ prev.op = "insert" /\ prev.panic = NoPanic
     /\ last.op = "insert" /\ last.root = prev.result
     /\ last.key = prev.key /\ last.value = prev.value) =>
        (last.panic = NoPanic /\ last.result = prev.result)

\* C6 Remove of absent key: removing a key the root does not hold returns
\* the same root; the call writes nodes again, all of them blobs the store
\* already has.
C6_RemoveAbsent ==
    (/\ last.op = "remove" /\ last.root # None
     /\ get(storage, last.root, last.key) = Found(None)) =>
        /\ last.panic = NoPanic
        /\ last.result = last.root
        /\ last.writes # <<>>
        /\ last.fresh = {}

\* an absent key was removed from a tree whose path to the key has a stored child
C6_Witness ==
    /\ last.op = "remove" /\ last.root # None /\ last.map[last.key] = None
    /\ last.result = last.root
    /\ Len(last.writes) >= 2

\* C7 remove returns None exactly when the mapping without the key is
\* empty, and on the empty root it returns None without touching the store.
C7_RemoveNone ==
    (last.op = "remove" /\ last.panic = NoPanic) =>
        /\ (last.result = None) <=> (last.newmap = EmptyMap)
        /\ last.root = None =>
                (last.result = None /\ last.reads = <<>> /\ last.writes = <<>>)

\* the last key of a tree was removed, then remove was called on the empty root
C7_Witness ==
    /\ prev.op = "remove" /\ prev.root # None /\ prev.map[prev.key] # None
    /\ prev.result = None
    /\ last.op = "remove" /\ last.root = None /\ last.result = None

\* C8 remove deletes exactly one key: in the root it returns (None read as
\* the empty mapping) the key is absent and every other key reads as before.
C8_RemoveExactlyOne ==
    (last.op = "remove" /\ last.panic = NoPanic) =>
        \A k \in Keys :
            get(storage, last.result, k) =
                IF k = last.key THEN Found(None) ELSE get(storage, last.root, k)

\* a key was removed from a tree of three keys and the branch above it collapsed
C8_Witness ==
    /\ last.op = "remove" /\ last.panic = NoPanic /\ last.map[last.key] # None
    /\ Cardinality({k \in Keys : last.map[k] # None}) = 3
    /\ from_slice(last.root[1].h256).type = "Branch"
    /\ from_slice(last.result[1].h256).type = "Extension"

\* Every hash pointer under the pointer, through stored and embedded nodes
\* alike, addresses a blob of the store.
RECURSIVE PersistedPointer(_, _)
PersistedNode(store, node) ==
    CASE node.type = "Leaf" -> TRUE
      [] node.type = "Extension" -> PersistedPointer(store, node.pointer)
      [] node.type = "Branch" ->
            \A i \in 1..Len(node.children) : PersistedPointer(store, node.children[i])

PersistedPointer(store, pointer) ==
    CASE pointer.kind = "Null" -> TRUE
      [] pointer.kind = "Pointer" ->
            /\ pointer.hash.h256 \in store
            /\ PersistedNode(store, from_slice(pointer.hash.h256))
      [] pointer.kind = "Embedded" -> PersistedNode(store, pointer.node)

\* C10 No dangling references: the node of every root returned by insert
\* or remove, and every node a hash pointer under it refers to, is in the
\* blob store.
C10_NoDangling ==
    \A e \in returned : e.root # None => PersistedPointer(storage, Pointer(e.root[1]))

\* insert returned a root whose node is embeddable, and an earlier root has
\* a child behind a hash pointer
C10_Witness ==
    /\ last.op = "insert" /\ last.panic = NoPanic
    /\ is_embeddable(from_slice(last.result[1].h256))
    /\ \E e \in returned :
            /\ e.root # None
            /\ from_slice(e.root[1].h256).type = "Branch"
            /\ \E i \in 1..16 : from_slice(e.root[1].h256).children[i].kind = "Pointer"

\* C9 Old roots stay valid: a root that was returned reads as the mapping
\* it was returned for at every later point, also between the writes of a
\* call in progress and for a lookup whose steps interleave with them; the
\* store only grows.
C9_OldRootsValid ==
    /\ [](\A e \in returned : Denotes(storage, e.root, e.map))
    /\ [](rd.done => (rd.panic = NoPanic /\ rd.value = rd.expect))
    /\ [][storage \subseteq storage']_vars

\* a lookup of several steps found its value while another call wrote
C9_Witness ==
    /\ rd.done /\ rd.raced /\ rd.steps >= 2
    /\ rd.value # None /\ rd.value = rd.expect
    /\ rd.root # cur.root

\* the node a pointer that is not Null leads to
NodeAt(pointer) ==
    IF pointer.kind = "Pointer" THEN from_slice(pointer.hash.h256) ELSE pointer.node

\* The tree under the pointer is in canonical form.
RECURSIVE CanonicalPointer(_)
CanonicalNode(node) ==
    CASE node.type = "Leaf" -> TRUE
      [] node.type = "Extension" ->
            /\ node.pointer # Null
            /\ node.path # <<>>
            /\ NodeAt(node.pointer).type \notin {"Extension", "Leaf"}
            /\ CanonicalPointer(node.pointer)
      [] node.type = "Branch" ->
            /\ ~(used_slots(node.children) = 0 /\ node.branch_value = None)
            /\ ~(used_slots(node.children) = 1 /\ node.branch_value = None)
            /\ ~(used_slots(node.children) = 0 /\ node.branch_value # None)
            /\ \A i \in 1..Len(node.children) : CanonicalPointer(node.children[i])

CanonicalPointer(pointer) ==
    pointer = Null \/ CanonicalNode(NodeAt(pointer))

\* C11 Canonical form: the tree under the root that an insert or a remove
\* returns, at every call of a sequence of calls from the empty root, has no
\* Extension with a Null pointer, with an empty path or above an Extension
\* or a Leaf, and no Branch with no used slot (with or without a value) or
\* with one used slot and no value.
C11_CanonicalForm ==
    (last.op # "none" /\ last.panic = NoPanic /\ last.result # None) =>
        CanonicalPointer(Pointer(last.result[1]))

\* a remove collapsed the root branch into an extension above a branch,
\* after an insert had split an extension
C11_Witness ==
    /\ last.op = "remove" /\ last.panic = NoPanic /\ last.result # None
    /\ from_slice(last.root[1].h256).type = "Branch"
    /\ from_slice(last.result[1].h256).type = "Extension"
    /\ NodeAt(from_slice(last.result[1].h256).pointer).type = "Branch"
    /\ prev.op = "insert" /\ prev.root # None
    /\ from_slice(prev.root[1].h256).type = "Extension"

\* C13 Insert at a Branch with an empty remaining path: the insert step on
\* a Branch with the empty path returns the branch with its value set to
\* Some(value) and its children unchanged, without a panic, however many
\* children are used.
C13_BranchEmptyPath ==
    \A e \in returned, value \in Values :
        (e.root # None /\ from_slice(e.root[1].h256).type = "Branch") =>
            insert_path_by_node(NewContext(storage), <<>>, value,
                                from_slice(e.root[1].h256)) =
                [s |-> NewContext(storage),
                 node |-> Branch(from_slice(e.root[1].h256).children, Some(value))]

\* the panics of the internal assertions
InternalPanics ==
    { "null node pointer dereference",
      "insert operation cannot remove root",
      "assertion failed: target_value.is_none()",
      "assertion failed: common_prefix.len() < node_path.len()",
      "assertion failed: pointer != NodePointer::Null" }

\* C15 Internal assertions never fire: no insert or remove of a sequence of
\* calls from the empty root ends in the null-pointer dereference, the
\* unreachable Null root or one of the three assertions, and no get on the
\* root a call returned does.
C15_NoInternalAssertion ==
    /\ last.panic \notin InternalPanics
    /\ \A k \in Keys : get(storage, cur.root, k).panic \notin InternalPanics

\* an insert split the root extension next to the assertion on the common
\* prefix, and the remove after it collapsed the branch onto its Extension child
C15_Witness ==
    /\ prev.op = "insert" /\ prev.panic = NoPanic /\ prev.root # None
    /\ from_slice(prev.root[1].h256).type = "Extension"
    /\ ~starts_with(from_key(prev.key), from_slice(prev.root[1].h256).path)
    /\ last.op = "remove" /\ last.panic = NoPanic /\ last.result # None
    /\ from_slice(last.root[1].h256).type = "Branch"
    /\ \E i \in 1..16 :
            /\ from_slice(last.root[1].h256).children[i] # Null
            /\ NodeAt(from_slice(last.root[1].h256).children[i]).type = "Extension"
            /\ from_slice(last.result[1].h256) =
                    Extension(<<i - 1>> \o NodeAt(from_slice(last.root[1].h256).children[i]).path,
                              NodeAt(from_slice(last.root[1].h256).children[i]).pointer)

\* The hash pointers a node contains, directly or inside nodes embedded in it.
RECURSIVE HashesOfPointer(_)
HashesOfNode(node) ==
    CASE node.type = "Leaf" -> {}
      [] node.type = "Extension" -> HashesOfPointer(node.pointer)
      [] node.type = "Branch" ->
            UNION { HashesOfPointer(node.children[i]) : i \in 1..Len(node.children) }

HashesOfPointer(pointer) ==
    CASE pointer.kind = "Null" -> {}
      [] pointer.kind = "Pointer" -> {pointer.hash}
      [] pointer.kind = "Embedded" -> HashesOfNode(pointer.node)

\* C14 Bottom-up write order: whenever a call is about to write a node,
\* every hash pointer the node contains, directly or inside embedded nodes,
\* addresses a blob the store holds already; and the last write of a call
\* that returns a root is the write of the root node.
C14_BottomUpWrites ==
    /\ pending # <<>> =>
            \A h \in HashesOfNode(from_slice(Head(pending))) : h.h256 \in storage
    /\ (wres.op # "none" /\ wres.result # None) =>
            /\ wres.writes # <<>>
            /\ Hash(wres.writes[Len(wres.writes)]) = wres.result[1]

\* a call is about to write its root node, the last of three writes or
\* more, and the node points at a blob the same call wrote first
C14_Witness ==
    /\ Len(pending) = 1 /\ Len(wres.writes) >= 3
    /\ wres.result = Some(Hash(Head(pending)))
    /\ \E h \in HashesOfNode(from_slice(Head(pending))) : h.h256 \in wres.fresh

\* The blobs under a pointer: those its hash pointers address, through
\* stored and embedded nodes alike.
RECURSIVE BlobsUnderPointer(_)
BlobsUnderNode(node) ==
    CASE node.type = "Leaf" -> {}
      [] node.type = "Extension" -> BlobsUnderPointer(node.pointer)
      [] node.type = "Branch" ->
            UNION { BlobsUnderPointer(node.children[i]) : i \in 1..Len(node.children) }

BlobsUnderPointer(pointer) ==
    CASE pointer.kind = "Null" -> {}
      [] pointer.kind = "Pointer" ->
            {pointer.hash.h256} \cup BlobsUnderNode(from_slice(pointer.hash.h256))
      [] pointer.kind = "Embedded" -> BlobsUnderNode(pointer.node)

\* the blobs reachable from a root
ReachableBlobs(root) == BlobsUnderPointer(get_root_pointer(root))

StoragePanics == { "failed to fetch from storage", "failed to insert to storage" }

\* the last call ended in a blob-store failure
StorageFailed == last.op # "none" /\ last.panic \in StoragePanics

\* the failed call returned no root and every root returned so far reads as before
FailedCallReturnsNothing ==
    /\ last.result = None
    /\ cur.root = last.root
    /\ \A e \in returned : Denotes(storage, e.root, e.map)

\* C12 as stated: after a blob-store failure, no node the call wrote before
\* the failure is reachable from a root returned so far.
C12_Original ==
    StorageFailed =>
        /\ FailedCallReturnsNothing
        /\ \A i \in 1..Len(last.writes) : \A e \in returned :
                last.writes[i] \notin ReachableBlobs(e.root)

\* C12 No partial updates on storage failure: a call in which a blob-store
\* get or insert fails returns no root, every root returned before reads
\* the same for every key, and no node the call added to the store before
\* the failure is reachable from a root returned so far.
C12_NoPartialUpdates ==
    StorageFailed =>
        /\ FailedCallReturnsNothing
        /\ \A b \in last.fresh : \A e \in returned : b \notin ReachableBlobs(e.root)

\* an insert into a tree with stored children added a node to the store,
\* then the write of its next node failed
C12_Witness ==
    /\ last.op = "insert" /\ last.panic = "failed to insert to storage"
    /\ last.root # None /\ Len(last.reads) >= 1
    /\ last.fresh # {}
    /\ \E e \in returned : e.root = last.root /\ ReachableBlobs(e.root) # {e.root[1].h256}

====
